---- MODULE Spec2Model ----
(***************************************************************************)
(* Build-log streaming over SSE (src/main.py): the in-memory registry      *)
(* BUILDS, the Build runner that fills an unbounded asyncio.Queue, and the *)
(* event_generator of stream_logs that replays and then tails that queue.  *)
(*                                                                         *)
(* Scheduling is asyncio's: one task runs at a time and gives the loop up  *)
(* only at an await that really suspends (asyncio.sleep, the disconnect    *)
(* probe, Queue.get on an empty queue) or at a yield of the generator.     *)
(* Queue.put on an unbounded queue never suspends.  The runner's code      *)
(* between two sleeps is modelled statement by statement; while it is in   *)
(* the middle of such a run (Running) no other task takes a step.          *)
(*                                                                         *)
(* A log line is identified by its push ordinal (1 for the first line the  *)
(* runner puts, 2 for the second, ...); lastLine holds what the most       *)
(* recently put line says.  out is the chunk a generator yielded last; the *)
(* history variables (emitted, early, owed, hw, served, afterGone,         *)
(* afterGoneTail) only record what the steps did, and each specification   *)
(* keeps the ones its properties read.                                     *)
(***************************************************************************)
EXTENDS Integers, Sequences, FiniteSets, TLC

\* ------------------------------------------------------------------ bounds
MaxBuilds == 2
SoloBuilds == 1
MaxSessions == 2
SoloSessions == 1
NumIds == 2
Max404 == 1
MaxAfterGone == 2

Builds == 1..MaxBuilds
Sessions == 1..MaxSessions
Ids == 1..NumIds

\* --------------------------------------------------------- program constants
steps ==
  << "Cloning repository", "Installing dependencies", "Running tests",
     "Building assets", "Packaging artifacts", "Deploying to staging",
     "Smoke tests", "Deploying to production" >>

NumSteps == Len(steps)

MinDetail == 1
MaxDetail == 4

\* random.randint(1, 4): the values range(...) may be given
DetailCounts_zero == 0..MaxDetail

DetailCounts_more == MinDetail..(MaxDetail + 1)

DetailCounts == MinDetail..MaxDetail

\* the four f-strings of Build.run, without the timestamp
StartLine(st) == << "start", steps[st], 0 >>
DetailLine(st, n) == << "detail", steps[st], n >>
CompletedLine(st) == << "completed", steps[st], 0 >>
FinalLine(b_id) == << "final", "Build", b_id >>
NoLine == << "none", "", 0 >>

\* format_sse and the closing chunk of event_generator
format_sse(line) == << "data", line >>
DoneChunk == << "event: done", 0 >>

VARIABLES
  BUILDS,        \* registry: id -> Build object (0: no entry)
  nbuilds,       \* Build objects constructed so far (objects are 1..nbuilds)
  bid,           \* Build.id
  queue,         \* Build.queue: the lines waiting, oldest first
  getters,       \* Build.queue._getters: sessions suspended in Queue.get
  finished,      \* Build.finished
  rpc,           \* where Build.run is
  rstep,         \* index of the current step of `for step in steps`
  rk,            \* the value range() was given for the current step
  ri,            \* detail lines put so far in the current step
  npushed,       \* lines put so far
  lastLine,      \* content of the line put last
  sbuild,        \* the Build a session's generator closes over
  spc,           \* where event_generator is
  gone,          \* the peer of the session has gone away
  out,           \* the last yield: session, chunk, and a bit flipped by every yield
  notFound,      \* the ids stream_logs answered 404 for, in order
  emitted,       \* history: the chunks each generator has yielded, in order
  early,         \* history: the session attached before the first put
  owed,          \* history: lines put before the session attached, minus the
                 \*          data chunks it has yielded (not below 0)
  hw,            \* history: highest line ordinal yielded so far, per build
  served,        \* history: the sessions that have yielded a data chunk
  afterGone,     \* history: data chunks yielded since the peer went (saturating)
  afterGoneTail  \* history: of these, the ones yielded by the tail loop

regVars == << BUILDS, nbuilds, bid >>
runVars == << rpc, rstep, rk, ri >>
qVars == << queue, getters, npushed, lastLine >>
sessVars == << sbuild, spc, gone, out >>
coreVars == << BUILDS, nbuilds, bid, queue, getters, finished, rpc, rstep, rk, ri,
               npushed, lastLine, sbuild, spc, gone, out, notFound >>
histVars == << emitted, early, owed, hw, served, afterGone, afterGoneTail >>
vars == << coreVars, histVars >>

Init ==
  /\ BUILDS = [i \in Ids |-> 0]
  /\ nbuilds = 0
  /\ bid = [b \in Builds |-> 0]
  /\ queue = [b \in Builds |-> << >>]
  /\ getters = [b \in Builds |-> << >>]
  /\ finished = [b \in Builds |-> FALSE]
  /\ rpc = [b \in Builds |-> "none"]
  /\ rstep = [b \in Builds |-> 0]
  /\ rk = [b \in Builds |-> 0]
  /\ ri = [b \in Builds |-> 0]
  /\ npushed = [b \in Builds |-> 0]
  /\ lastLine = [b \in Builds |-> NoLine]
  /\ sbuild = [s \in Sessions |-> 0]
  /\ spc = [s \in Sessions |-> "none"]
  /\ gone = [s \in Sessions |-> FALSE]
  /\ out = [sess |-> 0, chunk |-> << "", 0 >>, flip |-> 0]
  /\ notFound = << >>
  /\ emitted = [s \in Sessions |-> << >>]
  /\ early = [s \in Sessions |-> FALSE]
  /\ owed = [s \in Sessions |-> 0]
  /\ hw = [b \in Builds |-> 0]
  /\ served = {}
  /\ afterGone = [s \in Sessions |-> 0]
  /\ afterGoneTail = [s \in Sessions |-> 0]

\* ------------------------------------------------------------ the event loop
\* The runner is between two statements that no suspension separates.
Running_putSuspends(b) == rpc[b] \in {"putCompleted", "setFinished"}

Running(b) == rpc[b] \in {"putCompleted", "setFinished", "putFinal"}

LoopFree == \A b \in Builds : ~Running(b)

\* ------------------------------------------------------------- asyncio.Queue
\* Queue.put on Queue() (maxsize 0, never full): put_nowait appends the line
\* and wakes the first waiting getter.
put_bounded(b, line) ==
  /\ Len(queue[b]) < 8
  /\ queue' = [queue EXCEPT ![b] = Append(@, npushed[b] + 1)]
  /\ npushed' = [npushed EXCEPT ![b] = @ + 1]
  /\ lastLine' = [lastLine EXCEPT ![b] = line]
  /\ IF getters[b] # << >>
       THEN /\ spc' = [spc EXCEPT ![Head(getters[b])] = "woken"]
            /\ getters' = [getters EXCEPT ![b] = Tail(@)]
       ELSE UNCHANGED << spc, getters >>

put_nowake(b, line) ==
  /\ queue' = [queue EXCEPT ![b] = Append(@, npushed[b] + 1)]
  /\ npushed' = [npushed EXCEPT ![b] = @ + 1]
  /\ lastLine' = [lastLine EXCEPT ![b] = line]
  /\ UNCHANGED << spc, getters >>

put(b, line) ==
  /\ queue' = [queue EXCEPT ![b] = Append(@, npushed[b] + 1)]
  /\ npushed' = [npushed EXCEPT ![b] = @ + 1]
  /\ lastLine' = [lastLine EXCEPT ![b] = line]
  /\ IF getters[b] # << >>
       THEN /\ spc' = [spc EXCEPT ![Head(getters[b])] = "woken"]
            /\ getters' = [getters EXCEPT ![b] = Tail(@)]
       ELSE UNCHANGED << spc, getters >>

\* ----------------------------------------------------------------- Build.run
\* lines 51-52 and the call of range() on line 55
RunStart(b) ==
  /\ LoopFree
  /\ rpc[b] = "sleepStep"
  /\ put(b, StartLine(rstep[b]))
  /\ \E k \in DetailCounts :
       /\ rk' = [rk EXCEPT ![b] = k]
       /\ ri' = [ri EXCEPT ![b] = 0]
       /\ rpc' = [rpc EXCEPT ![b] = IF k > 0 THEN "sleepDetail" ELSE "putCompleted"]
  /\ UNCHANGED << regVars, finished, rstep, sbuild, gone, out, notFound >>

\* lines 56-57
RunDetail(b) ==
  /\ LoopFree
  /\ rpc[b] = "sleepDetail"
  /\ put(b, DetailLine(rstep[b], ri[b] + 1))
  /\ ri' = [ri EXCEPT ![b] = @ + 1]
  /\ rpc' = [rpc EXCEPT ![b] = IF ri[b] + 1 < rk[b] THEN "sleepDetail" ELSE "putCompleted"]
  /\ UNCHANGED << regVars, finished, rstep, rk, sbuild, gone, out, notFound >>

\* line 59, then the next round of `for step in steps`
RunCompleted(b) ==
  /\ rpc[b] = "putCompleted"
  /\ put(b, CompletedLine(rstep[b]))
  /\ IF rstep[b] < NumSteps
       THEN /\ rstep' = [rstep EXCEPT ![b] = @ + 1]
            /\ rpc' = [rpc EXCEPT ![b] = "sleepStep"]
       ELSE /\ rpc' = [rpc EXCEPT ![b] = "setFinished"]
            /\ UNCHANGED rstep
  /\ UNCHANGED << regVars, finished, rk, ri, sbuild, gone, out, notFound >>

\* line 61
RunFinished(b) ==
  /\ rpc[b] = "setFinished"
  /\ finished' = [finished EXCEPT ![b] = TRUE]
  /\ rpc' = [rpc EXCEPT ![b] = "putFinal"]
  /\ UNCHANGED << regVars, qVars, rstep, rk, ri, sessVars, notFound >>

\* line 62
RunFinal(b) ==
  /\ rpc[b] = "putFinal"
  /\ put(b, FinalLine(bid[b]))
  /\ rpc' = [rpc EXCEPT ![b] = "done"]
  /\ UNCHANGED << regVars, finished, rstep, rk, ri, sbuild, gone, out, notFound >>

\* --------------------------------------------------------------- start_build
\* BUILDS[build.id] = build: dict.__setitem__
setitem_only(d, k, v) == [i \in DOMAIN d |-> IF i = k THEN v ELSE 0]

setitem(d, k, v) == [d EXCEPT ![k] = v]

\* Build() draws its id from uuid4 (8 hex digits of it, and BUILDS is not
\* looked at first); the task of build.run() is created and will first run up
\* to the sleep of line 51.  cap is the number of start requests the scenario
\* makes.
start_build(id, cap) ==
  /\ LoopFree
  /\ nbuilds < cap
  /\ LET b == nbuilds + 1 IN
       /\ nbuilds' = b
       /\ bid' = [bid EXCEPT ![b] = id]
       /\ BUILDS' = setitem(BUILDS, id, b)
       /\ rpc' = [rpc EXCEPT ![b] = "sleepStep"]
       /\ rstep' = [rstep EXCEPT ![b] = 1]
  /\ UNCHANGED << qVars, finished, rk, ri, sessVars, notFound >>

\* --------------------------------------------------- stream_logs, line 82-84
\* The lowest session slot not yet used.
FreeSlot(cap) ==
  IF \E s \in 1..cap : spc[s] = "none"
    THEN CHOOSE s \in 1..cap : spc[s] = "none" /\ \A t \in 1..cap : spc[t] = "none" => s <= t
    ELSE 0

\* `if not build` of line 83
NotRegistered_never(id) == FALSE

NotRegistered(id) == BUILDS[id] = 0

\* BUILDS.get(build_id); `if not build: raise HTTPException(404)`; otherwise
\* the response holds a generator that has not run yet.  cap is the number
\* of stream requests the scenario lets succeed.
stream_logs(id, cap) ==
  /\ LoopFree
  /\ IF NotRegistered(id)
       THEN /\ Len(notFound) < Max404
            /\ notFound' = Append(notFound, id)
            /\ UNCHANGED << regVars, qVars, finished, runVars, sessVars >>
       ELSE /\ FreeSlot(cap) # 0
            /\ sbuild' = [sbuild EXCEPT ![FreeSlot(cap)] = BUILDS[id]]
            /\ spc' = [spc EXCEPT ![FreeSlot(cap)] = "replay"]
            /\ UNCHANGED << regVars, qVars, finished, runVars, gone, out, notFound >>

\* ------------------------------------------------------------ event_generator
\* a yield hands the chunk to the response
yield(s, chunk) == out' = [sess |-> s, chunk |-> chunk, flip |-> 1 - out.flip]

\* Queue.empty()
empty_one(q) == Len(q) <= 1

empty(q) == q = << >>

\* get_nowait: what stays in the queue when the head is returned
QueueRest_keep(q) == q

QueueRest(q) == Tail(q)

\* `yield format_sse(line)` of the line just taken from the head of the queue
YieldLine(s) ==
  /\ queue' = [queue EXCEPT ![sbuild[s]] = QueueRest(@)]
  /\ yield(s, format_sse(Head(queue[sbuild[s]])))

\* line 104, reached when the while condition is false and after `break`
YieldDone_drain(s, how) ==
  /\ yield(s, DoneChunk)
  /\ spc' = [spc EXCEPT ![s] = how]
  /\ queue' = [queue EXCEPT ![sbuild[s]] = << >>]

YieldDone(s, how) ==
  /\ yield(s, DoneChunk)
  /\ spc' = [spc EXCEPT ![s] = how]
  /\ UNCHANGED queue

\* line 96: not build.finished or not build.queue.empty()
TailCond_flagOnly(b) == ~finished[b]

TailCond_always(b) == TRUE

TailCond(b) == ~finished[b] \/ ~empty(queue[b])

\* lines 96-98 up to the suspension in request.is_disconnected()
EnterTail(s) ==
  IF TailCond(sbuild[s])
    THEN /\ spc' = [spc EXCEPT ![s] = "probe"]
         /\ UNCHANGED << queue, out >>
    ELSE YieldDone(s, "done")

\* lines 89-94: one round of the flush loop; on QueueEmpty, on to line 96
Replay(s) ==
  /\ LoopFree
  /\ spc[s] = "replay"
  /\ IF ~empty(queue[sbuild[s]])
       THEN YieldLine(s) /\ UNCHANGED spc
       ELSE EnterTail(s)
  /\ UNCHANGED << regVars, getters, npushed, lastLine, finished, runVars,
                  sbuild, gone, notFound >>

\* Queue.get: get_nowait and the yield of line 101 when the queue holds a
\* line, else a new getter is queued and the task suspends
QueueGet(s) ==
  IF ~empty(queue[sbuild[s]])
    THEN /\ YieldLine(s)
         /\ spc' = [spc EXCEPT ![s] = "tail"]
         /\ UNCHANGED getters
    ELSE /\ getters' = [getters EXCEPT ![sbuild[s]] = Append(@, s)]
         /\ spc' = [spc EXCEPT ![s] = "waiting"]
         /\ UNCHANGED << queue, out >>

\* what `await request.is_disconnected()` answers
is_disconnected_never(s) == FALSE

is_disconnected(s) == gone[s]

\* lines 98-101: the probe answers; break (and line 104), or Queue.get
Probe(s) ==
  /\ LoopFree
  /\ spc[s] = "probe"
  /\ IF is_disconnected(s)
       THEN YieldDone(s, "disconnected") /\ UNCHANGED getters
       ELSE QueueGet(s)
  /\ UNCHANGED << regVars, npushed, lastLine, finished, runVars, sbuild, gone,
                  notFound >>

\* Queue.get resumed by a put: `while self.empty()` waits again when another
\* consumer took the line first
Woken(s) ==
  /\ LoopFree
  /\ spc[s] = "woken"
  /\ QueueGet(s)
  /\ UNCHANGED << regVars, npushed, lastLine, finished, runVars, sbuild, gone,
                  notFound >>

\* the generator resumed after the yield of line 101: back to line 96
Resume(s) ==
  /\ LoopFree
  /\ spc[s] = "tail"
  /\ EnterTail(s)
  /\ UNCHANGED << regVars, getters, npushed, lastLine, finished, runVars,
                  sbuild, gone, notFound >>

\* the remote peer goes away; request.is_disconnected() answers True from now on
Disconnect(s) ==
  /\ LoopFree
  /\ spc[s] \in {"replay", "probe", "tail", "waiting", "woken"}
  /\ ~gone[s]
  /\ gone' = [gone EXCEPT ![s] = TRUE]
  /\ UNCHANGED << regVars, qVars, finished, runVars, sbuild, spc, out, notFound >>

\* ---------------------------------------------------------- history variables
Yielded == out' # out
YieldedData(s) == Yielded /\ out'.sess = s /\ out'.chunk[1] = "data"
Attached(s) == spc[s] = "none" /\ spc'[s] # "none"
Bump(n) == IF n < MaxAfterGone THEN n + 1 ELSE MaxAfterGone

TrackEmitted ==
  emitted' = [s \in Sessions |->
                IF Yielded /\ out'.sess = s THEN Append(emitted[s], out'.chunk) ELSE emitted[s]]

TrackEarly ==
  early' = [s \in Sessions |-> IF Attached(s) THEN npushed[sbuild'[s]] = 0 ELSE early[s]]

TrackOwed ==
  owed' = [s \in Sessions |->
             IF Attached(s) THEN npushed[sbuild'[s]]
             ELSE IF YieldedData(s) /\ owed[s] > 0 THEN owed[s] - 1 ELSE owed[s]]

TrackSplit ==
  /\ hw' = [b \in Builds |->
              IF \E s \in Sessions : YieldedData(s) /\ sbuild[s] = b /\ out'.chunk[2] > hw[b]
                THEN out'.chunk[2] ELSE hw[b]]
  /\ served' = served \cup {s \in Sessions : YieldedData(s)}

TrackGone ==
  /\ afterGone' = [s \in Sessions |->
                     IF YieldedData(s) /\ gone[s] THEN Bump(afterGone[s]) ELSE afterGone[s]]
  /\ afterGoneTail' = [s \in Sessions |->
                         IF YieldedData(s) /\ gone[s] /\ spc[s] # "replay"
                           THEN Bump(afterGoneTail[s]) ELSE afterGoneTail[s]]

\* ------------------------------------------------------------ specifications
\* the ids of the requests: any id for the registry, and for the pipeline one
\* id for start_build and the registered ids for stream_logs
OneId == {CHOOSE i \in Ids : TRUE}
KnownIds == {i \in Ids : BUILDS[i] # 0}

\* Spec: one build, one stream request, a peer that may go away
Hist ==
  /\ TrackEmitted
  /\ TrackEarly
  /\ TrackGone
  /\ UNCHANGED << owed, hw, served >>

Next ==
  \/ \E id \in OneId : start_build(id, SoloBuilds) /\ Hist
  \/ \E id \in KnownIds : stream_logs(id, SoloSessions) /\ Hist
  \/ \E b \in Builds : RunStart(b) /\ Hist
  \/ \E b \in Builds : RunDetail(b) /\ Hist
  \/ \E b \in Builds : RunCompleted(b) /\ Hist
  \/ \E b \in Builds : RunFinished(b) /\ Hist
  \/ \E b \in Builds : RunFinal(b) /\ Hist
  \/ \E s \in Sessions : Replay(s) /\ Hist
  \/ \E s \in Sessions : Probe(s) /\ Hist
  \/ \E s \in Sessions : Woken(s) /\ Hist
  \/ \E s \in Sessions : Resume(s) /\ Hist
  \/ \E s \in Sessions : Disconnect(s) /\ Hist

Spec == Init /\ [][Next]_vars

\* SpecRegistry: requests with any id, known or not
HistRegistry ==
  /\ TrackEmitted
  /\ UNCHANGED << early, owed, hw, served, afterGone, afterGoneTail >>

NextRegistry ==
  \/ \E id \in Ids : start_build(id, SoloBuilds) /\ HistRegistry
  \/ \E id \in Ids : stream_logs(id, SoloSessions) /\ HistRegistry
  \/ \E b \in Builds : RunStart(b) /\ HistRegistry
  \/ \E b \in Builds : RunDetail(b) /\ HistRegistry
  \/ \E b \in Builds : RunCompleted(b) /\ HistRegistry
  \/ \E b \in Builds : RunFinished(b) /\ HistRegistry
  \/ \E b \in Builds : RunFinal(b) /\ HistRegistry
  \/ \E s \in Sessions : Replay(s) /\ HistRegistry
  \/ \E s \in Sessions : Probe(s) /\ HistRegistry
  \/ \E s \in Sessions : Woken(s) /\ HistRegistry
  \/ \E s \in Sessions : Resume(s) /\ HistRegistry

SpecRegistry == Init /\ [][NextRegistry]_vars

\* SpecReplay: the backlog a late session finds is counted
HistReplay ==
  /\ TrackEmitted
  /\ TrackOwed
  /\ UNCHANGED << early, hw, served, afterGone, afterGoneTail >>

NextReplay ==
  \/ \E id \in OneId : start_build(id, SoloBuilds) /\ HistReplay
  \/ \E id \in KnownIds : stream_logs(id, SoloSessions) /\ HistReplay
  \/ \E b \in Builds : RunStart(b) /\ HistReplay
  \/ \E b \in Builds : RunDetail(b) /\ HistReplay
  \/ \E b \in Builds : RunCompleted(b) /\ HistReplay
  \/ \E b \in Builds : RunFinished(b) /\ HistReplay
  \/ \E b \in Builds : RunFinal(b) /\ HistReplay
  \/ \E s \in Sessions : Replay(s) /\ HistReplay
  \/ \E s \in Sessions : Probe(s) /\ HistReplay
  \/ \E s \in Sessions : Woken(s) /\ HistReplay
  \/ \E s \in Sessions : Resume(s) /\ HistReplay

SpecReplay == Init /\ [][NextReplay]_vars

\* SpecSplit: two stream requests for the one build
HistSplit ==
  /\ TrackSplit
  /\ UNCHANGED << emitted, early, owed, afterGone, afterGoneTail >>

NextSplit ==
  \/ \E id \in OneId : start_build(id, SoloBuilds) /\ HistSplit
  \/ \E id \in KnownIds : stream_logs(id, MaxSessions) /\ HistSplit
  \/ \E b \in Builds : RunStart(b) /\ HistSplit
  \/ \E b \in Builds : RunDetail(b) /\ HistSplit
  \/ \E b \in Builds : RunCompleted(b) /\ HistSplit
  \/ \E b \in Builds : RunFinished(b) /\ HistSplit
  \/ \E b \in Builds : RunFinal(b) /\ HistSplit
  \/ \E s \in Sessions : Replay(s) /\ HistSplit
  \/ \E s \in Sessions : Probe(s) /\ HistSplit
  \/ \E s \in Sessions : Woken(s) /\ HistSplit
  \/ \E s \in Sessions : Resume(s) /\ HistSplit

SpecSplit == Init /\ [][NextSplit]_vars

\* FairSpec: one build, one stream request, a peer that may go away, under
\* asyncio's scheduling: a sleep ends, a task that is ready to run is run, a
\* generator that has yielded is resumed
HistLive ==
  /\ TrackEmitted
  /\ UNCHANGED << early, owed, hw, served, afterGone, afterGoneTail >>

NextLive ==
  \/ \E id \in OneId : start_build(id, SoloBuilds) /\ HistLive
  \/ \E id \in KnownIds : stream_logs(id, SoloSessions) /\ HistLive
  \/ \E b \in Builds : RunStart(b) /\ HistLive
  \/ \E b \in Builds : RunDetail(b) /\ HistLive
  \/ \E b \in Builds : RunCompleted(b) /\ HistLive
  \/ \E b \in Builds : RunFinished(b) /\ HistLive
  \/ \E b \in Builds : RunFinal(b) /\ HistLive
  \/ \E s \in Sessions : Replay(s) /\ HistLive
  \/ \E s \in Sessions : Probe(s) /\ HistLive
  \/ \E s \in Sessions : Woken(s) /\ HistLive
  \/ \E s \in Sessions : Resume(s) /\ HistLive
  \/ \E s \in Sessions : Disconnect(s) /\ HistLive

RunnerStep(b) ==
  \/ RunStart(b)
  \/ RunDetail(b)
  \/ RunCompleted(b)
  \/ RunFinished(b)
  \/ RunFinal(b)

SessionStep(s) ==
  \/ Replay(s)
  \/ Probe(s)
  \/ Woken(s)
  \/ Resume(s)

Fairness ==
  /\ \A b \in Builds : WF_vars(RunnerStep(b) /\ HistLive)
  /\ \A s \in Sessions : WF_vars(SessionStep(s) /\ HistLive)

FairSpec == Init /\ [][NextLive]_vars /\ Fairness

\* FairStalled: as FairSpec, except that a sleep of the runner need not end
\* (the runner may stop for good at line 51 or 56); what follows a sleep up
\* to the next suspension still runs
RunAtomic(b) ==
  \/ RunCompleted(b)
  \/ RunFinished(b)
  \/ RunFinal(b)

FairnessStalled ==
  /\ \A b \in Builds : WF_vars(RunAtomic(b) /\ HistLive)
  /\ \A s \in Sessions : WF_vars(SessionStep(s) /\ HistLive)

FairStalled == Init /\ [][NextLive]_vars /\ FairnessStalled

\* SpecReconnect: one build and a client that may go away and then opens the
\* stream again: a stream request is made only when every generator made
\* before has ended
AllEnded == \A s \in Sessions : spc[s] \in {"none", "done", "disconnected"}

HistReconnect ==
  /\ TrackSplit
  /\ UNCHANGED << emitted, early, owed, afterGone, afterGoneTail >>

NextReconnect ==
  \/ \E id \in OneId : start_build(id, SoloBuilds) /\ HistReconnect
  \/ \E id \in KnownIds : AllEnded /\ stream_logs(id, MaxSessions) /\ HistReconnect
  \/ \E b \in Builds : RunStart(b) /\ HistReconnect
  \/ \E b \in Builds : RunDetail(b) /\ HistReconnect
  \/ \E b \in Builds : RunCompleted(b) /\ HistReconnect
  \/ \E b \in Builds : RunFinished(b) /\ HistReconnect
  \/ \E b \in Builds : RunFinal(b) /\ HistReconnect
  \/ \E s \in Sessions : Replay(s) /\ HistReconnect
  \/ \E s \in Sessions : Probe(s) /\ HistReconnect
  \/ \E s \in Sessions : Woken(s) /\ HistReconnect
  \/ \E s \in Sessions : Resume(s) /\ HistReconnect
  \/ \E s \in Sessions : Disconnect(s) /\ HistReconnect

SpecReconnect == Init /\ [][NextReconnect]_vars

\* SpecStarts: requests with any id from a client that starts a build, streams
\* it to its end and then starts a second build
HistStarts == UNCHANGED histVars

Quiet ==
  /\ \A b \in Builds : rpc[b] \in {"none", "done"}
  /\ nbuilds > 0 => \A s \in 1..SoloSessions : spc[s] = "done"

NextStarts ==
  \/ \E id \in Ids : Quiet /\ start_build(id, MaxBuilds) /\ HistStarts
  \/ \E id \in Ids : stream_logs(id, SoloSessions) /\ HistStarts
  \/ \E b \in Builds : RunStart(b) /\ HistStarts
  \/ \E b \in Builds : RunDetail(b) /\ HistStarts
  \/ \E b \in Builds : RunCompleted(b) /\ HistStarts
  \/ \E b \in Builds : RunFinished(b) /\ HistStarts
  \/ \E b \in Builds : RunFinal(b) /\ HistStarts
  \/ \E s \in Sessions : Replay(s) /\ HistStarts
  \/ \E s \in Sessions : Probe(s) /\ HistStarts
  \/ \E s \in Sessions : Woken(s) /\ HistStarts
  \/ \E s \in Sessions : Resume(s) /\ HistStarts

SpecStarts == Init /\ [][NextStarts]_vars

\* ---------------------------------------------------------------- properties
\* the line ordinals of the data chunks a session has yielded, in order
Lines(s) ==
  LET d == SelectSeq(emitted[s], LAMBDA c : c[1] = "data")
  IN [i \in 1..Len(d) |-> d[i][2]]

\* what the runner has put so far, in order
Pushed(b) == [i \in 1..npushed[b] |-> i]

\* no other stream request was made for the build of s
Sole(s) == \A t \in Sessions \ {s} : sbuild[t] # sbuild[s]

\* C1 (P1 ordering): for a session that attached before the first put and is
\* the only one of its build, the lines yielded so far followed by the lines
\* still queued are exactly the lines put so far, in put order; and when the
\* generator ends on its while condition the runner has ended too and the
\* lines yielded are all the lines it put.
C1_Ordering ==
  \A s \in Sessions :
    (spc[s] # "none" /\ early[s] /\ Sole(s)) =>
      /\ Lines(s) \o queue[sbuild[s]] = Pushed(sbuild[s])
      /\ spc[s] = "done" => (rpc[sbuild[s]] = "done" /\ Lines(s) = Pushed(sbuild[s]))

C1_Witness ==
  \E s \in Sessions :
    /\ early[s] /\ Sole(s) /\ ~gone[s]
    /\ spc[s] = "done"
    /\ Len(Lines(s)) = 49

\* C2 (P2 replay completeness): a session that is the only consumer of its
\* build yields the lines in put order from the first one on, and does not
\* leave the flush loop while any of the N lines put before it attached is
\* still to be yielded: the N lines come first, all of them, in put order.
C2_ReplayCompleteness ==
  \A s \in Sessions :
    (spc[s] # "none" /\ Sole(s)) =>
      /\ Lines(s) \o queue[sbuild[s]] = Pushed(sbuild[s])
      /\ owed[s] > 0 => spc[s] = "replay"

C2_Witness ==
  \E s \in Sessions :
    /\ Sole(s) /\ spc[s] = "replay"
    /\ Len(Lines(s)) = 5 /\ owed[s] = 1
    /\ Len(queue[sbuild[s]]) >= 3

\* C3 (P3 termination): a session alone on its build whose peer stays is
\* eventually ended by the done marker; in what any generator yields the done
\* marker comes at most once and nothing comes after it.
DoneOnceAndLast(s) ==
  /\ \A i \in 1..Len(emitted[s]) : emitted[s][i] = DoneChunk => i = Len(emitted[s])
  /\ spc[s] = "done" => (emitted[s] # << >> /\ emitted[s][Len(emitted[s])] = DoneChunk)

C3_Termination ==
  /\ [](\A s \in Sessions : DoneOnceAndLast(s))
  /\ \A s \in Sessions :
       (spc[s] # "none") ~> (spc[s] = "done" \/ gone[s] \/ ~Sole(s))

C3_Witness ==
  \E s \in Sessions :
    /\ Sole(s) /\ ~gone[s] /\ spc[s] = "done"
    /\ Len(emitted[s]) >= 26
    /\ emitted[s][Len(emitted[s])] = DoneChunk

\* C4 (P4 disconnect): a session whose tail loop found the peer gone has not
\* yielded the done marker.
C4_NoDoneAfterDisconnect ==
  \A s \in Sessions :
    spc[s] = "disconnected" =>
      \A i \in 1..Len(emitted[s]) : emitted[s][i] # DoneChunk

\* C5 (P5 unknown id): a 404 is answered only for an id that is no key of the
\* registry and changes nothing else; a generator is only ever made for a
\* build that is registered under the requested id.
C5_UnknownId ==
  /\ [][notFound' # notFound =>
          /\ BUILDS[notFound'[Len(notFound')]] = 0
          /\ UNCHANGED << BUILDS, nbuilds, bid, queue, getters, finished, rpc,
                          rstep, rk, ri, npushed, lastLine, sbuild, spc, gone,
                          out, emitted >>]_vars
  /\ [][\A s \in Sessions :
          Attached(s) => (sbuild'[s] \in Builds /\ BUILDS[bid[sbuild'[s]]] = sbuild'[s]
                          /\ notFound' = notFound)]_vars

C5_Witness ==
  /\ notFound # << >>
  /\ BUILDS[notFound[1]] = 0
  /\ \E b \in Builds : npushed[b] > 0
  /\ \A s \in Sessions : spc[s] = "none"

\* C6 (completion ordering): whenever finished is set, the final line has
\* been put.
C6_FlagAfterFinalPut ==
  \A b \in Builds : finished[b] => lastLine[b] = FinalLine(bid[b])

\* C7 (stream splitting): every data chunk yielded carries a line put later
\* than the line of every data chunk yielded before it for that build, by
\* either session; so no line is yielded twice and each session yields its
\* lines in put order.
C7_Splitting ==
  /\ [][\A s \in Sessions :
          YieldedData(s) =>
            /\ out'.chunk[2] > hw[sbuild[s]]
            /\ out'.chunk[2] <= npushed[sbuild[s]]]_vars
  /\ [](\A b \in Builds : hw[b] <= npushed[b])

C7_Witness ==
  /\ served = {1, 2}
  /\ sbuild[1] = sbuild[2]
  /\ out.sess = 2
  /\ \E b \in Builds : rpc[b] = "done" /\ hw[b] = npushed[b]

\* C8 (bounded stop): once the peer is gone a session yields at most one more
\* line.
C8_OneMoreLine == \A s \in Sessions : afterGone[s] <= 1

\* C8 as amended: once the peer is gone the tail loop yields at most one more
\* line; the flush loop, which never polls the probe, is not bounded.
C8_OneMoreTailLine == \A s \in Sessions : afterGoneTail[s] <= 1

C8_Witness ==
  \E s \in Sessions : afterGoneTail[s] = 1 /\ spc[s] = "disconnected"

\* C9 (runner output shape): every put adds one line, and the line follows
\* the one before as the script says: start, details 1..k with k in 1..4,
\* completed, for the 8 steps in order, then the final line naming the id and
\* nothing more; a runner that has ended has put 25 to 49 lines.
Follows(prev, next, id) ==
  \/ prev = NoLine /\ next = StartLine(1)
  \/ \E st \in 1..NumSteps :
       \/ prev = StartLine(st) /\ next = DetailLine(st, 1)
       \/ \E n \in 1..3 : prev = DetailLine(st, n) /\ next = DetailLine(st, n + 1)
       \/ \E n \in 1..4 : prev = DetailLine(st, n) /\ next = CompletedLine(st)
       \/ st < 8 /\ prev = CompletedLine(st) /\ next = StartLine(st + 1)
  \/ prev = CompletedLine(8) /\ next = FinalLine(id)

C9_RunnerShape ==
  /\ [][\A b \in Builds :
          npushed'[b] # npushed[b] =>
            /\ npushed'[b] = npushed[b] + 1
            /\ Follows(lastLine[b], lastLine'[b], bid[b])
            /\ queue'[b] = Append(queue[b], npushed'[b])]_vars
  /\ [](\A b \in Builds :
          rpc[b] = "done" =>
            /\ lastLine[b] = FinalLine(bid[b])
            /\ npushed[b] >= 25 /\ npushed[b] <= 49)

C9_Witness == \E b \in Builds : rpc[b] = "done" /\ npushed[b] = 25

C11_KeysStay ==
  /\ [][\A i \in Ids : BUILDS[i] # 0 => BUILDS'[i] # 0]_vars
  /\ [][BUILDS' # BUILDS => nbuilds' = nbuilds + 1]_vars
  /\ [][notFound' # notFound => BUILDS[notFound'[Len(notFound')]] = 0]_vars

C11_Witness ==
  /\ nbuilds = 2
  /\ \A i \in Ids : BUILDS[i] # 0
  /\ notFound # << >>
  /\ \E s \in Sessions : spc[s] = "done"
  /\ rpc[2] = "done"

\* C12 (unique ids): the builds constructed so far have pairwise different
\* ids, and each is the record the registry holds under its id.
C12_UniqueIds ==
  /\ \A b, c \in 1..nbuilds : b # c => bid[b] # bid[c]
  /\ \A b \in 1..nbuilds : BUILDS[bid[b]] = b

\* C13 (done only on clean end): a generator that ends without the probe
\* having reported disconnect yields the done marker in a step taken with
\* finished set and the queue empty, and yields it in no other step; so while
\* the runner has not set finished (it may stop for good at any point) no such
\* generator has ended.
C13_DoneOnlyOnCleanEnd ==
  /\ [][\A s \in Sessions :
          (Yielded /\ out'.sess = s /\ out'.chunk = DoneChunk /\ spc'[s] # "disconnected") =>
            /\ finished[sbuild[s]] /\ empty(queue[sbuild[s]])
            /\ spc[s] # "done" /\ spc'[s] = "done"]_vars
  /\ [][\A s \in Sessions :
          (spc[s] # "done" /\ spc'[s] = "done") => (Yielded /\ out'.chunk = DoneChunk)]_vars
  /\ [](\A s \in Sessions : spc[s] = "done" => finished[sbuild[s]])

C13_Witness ==
  \E s \in Sessions :
    /\ spc[s] = "done" /\ ~early[s]
    /\ out.sess = s /\ out.chunk = DoneChunk
    /\ finished[sbuild[s]] /\ empty(queue[sbuild[s]])
    /\ Len(Lines(s)) >= 25

\* C14 (termination with two sessions): once the runner has ended no session
\* is left suspended in Queue.get.  Only a put resumes a suspended getter and
\* an ended runner puts nothing, so a session suspended then never yields the
\* done marker and never ends.
C14_NoneLeftWaiting ==
  \A s \in Sessions : spc[s] = "waiting" => rpc[sbuild[s]] # "done"

IsPrefix(p, q) == Len(p) <= Len(q) /\ SubSeq(q, 1, Len(p)) = p

C16_NoDrainAfterDisconnect ==
  /\ [][\A s \in Sessions :
          (spc[s] # "disconnected" /\ spc'[s] = "disconnected") =>
            /\ queue' = queue /\ getters' = getters /\ npushed' = npushed
            /\ finished' = finished /\ BUILDS' = BUILDS]_vars
  /\ [][\A s \in Sessions :
          spc[s] = "disconnected" =>
            /\ spc'[s] = "disconnected"
            /\ ~(Yielded /\ out'.sess = s)
            /\ Sole(s) => IsPrefix(queue[sbuild[s]], queue'[sbuild[s]])]_vars
  /\ [](\A s \in Sessions :
          spc[s] = "disconnected" =>
            \A i \in 1..Len(getters[sbuild[s]]) : getters[sbuild[s]][i] # s)

C16_Witness ==
  \E s \in Sessions :
    /\ spc[s] = "disconnected"
    /\ Len(Lines(s)) >= 2
    /\ Len(queue[sbuild[s]]) >= 4
    /\ Lines(s) \o queue[sbuild[s]] = Pushed(sbuild[s])
    /\ rpc[sbuild[s]] = "sleepDetail"

\* C17 (reconnect gets the remainder): with one generator at a time on the
\* build, every data chunk carries the line put right after the line yielded
\* last (by this generator or by one that ended before it): no line is yielded
\* again and none is skipped.  The queue holds exactly the lines not yet
\* yielded, in put order, and a generator that ends on its while condition
\* has yielded all that were left.
C17_ReconnectGetsRemainder ==
  /\ [][\A s \in Sessions :
          YieldedData(s) => out'.chunk[2] = hw[sbuild[s]] + 1]_vars
  /\ [](\A b \in Builds :
          /\ hw[b] <= npushed[b]
          /\ queue[b] = [i \in 1..(npushed[b] - hw[b]) |-> hw[b] + i])
  /\ [](\A s \in Sessions :
          spc[s] = "done" => (hw[sbuild[s]] = npushed[sbuild[s]] /\ rpc[sbuild[s]] = "done"))

C17_Witness ==
  /\ spc[1] = "disconnected" /\ spc[2] = "done"
  /\ sbuild[1] = sbuild[2]
  /\ served = {1, 2}
  /\ out.sess = 2
  /\ hw[sbuild[2]] = npushed[sbuild[2]]

\* C18 (no observable completion race): every step of a generator, and every
\* stream request that makes one, is taken in a state where finished set
\* means the runner has ended with the final line put; from such a state on
\* nothing more is put; so a generator that ended on its while condition
\* ended after the final line was put.
SessionRan(s) ==
  /\ spc[s] \in {"replay", "probe", "woken", "tail"}
  /\ spc'[s] # spc[s] \/ (Yielded /\ out'.sess = s)

Completed(b) ==
  finished[b] => (rpc[b] = "done" /\ lastLine[b] = FinalLine(bid[b]))

C18_NoCompletionRace ==
  /\ [][\A s \in Sessions : SessionRan(s) => Completed(sbuild[s])]_vars
  /\ [][\A s \in Sessions : Attached(s) => Completed(sbuild'[s])]_vars
  /\ [][\A b \in Builds :
          (finished[b] /\ rpc[b] = "done") => (npushed'[b] = npushed[b] /\ rpc'[b] = "done")]_vars
  /\ [](\A s \in Sessions :
          spc[s] = "done" => lastLine[sbuild[s]] = FinalLine(bid[sbuild[s]]))

C18_Witness ==
  \E s \in Sessions :
    /\ spc[s] = "tail"
    /\ finished[sbuild[s]] /\ rpc[sbuild[s]] = "done"
    /\ out.sess = s /\ out.chunk = format_sse(npushed[sbuild[s]])
    /\ empty(queue[sbuild[s]])

\* C19 (bounded backlog): a queue never holds more lines than its runner has
\* put, which is never more than 49 (8 steps of at most 6 lines and the
\* final line), with or without a session; and once the runner has ended no
\* step makes a queue longer.
MaxLines == NumSteps * (MaxDetail + 2) + 1

C19_BoundedBacklog ==
  /\ [](\A b \in Builds :
          Len(queue[b]) <= npushed[b] /\ npushed[b] <= MaxLines /\ MaxLines = 49)
  /\ [][\A b \in Builds : rpc[b] = "done" => Len(queue'[b]) <= Len(queue[b])]_vars

C19_Witness ==
  \E b \in Builds :
    /\ rpc[b] = "done"
    /\ Len(queue[b]) = 49 /\ npushed[b] = 49
    /\ \A s \in Sessions : spc[s] = "none"

\* C20 (late attach to a drained, finished build): a generator made when
\* finished is set and the queue is empty has yielded nothing until it runs,
\* and the build stays drained and finished meanwhile; its first step yields
\* the done marker and ends it, with no line taken, no getter queued and the
\* probe not polled; an ended generator never yields again.
Fresh(s) == spc[s] = "replay" /\ s \notin served

Drained(b) == finished[b] /\ empty(queue[b])

StillFresh(s) == spc'[s] = "replay" /\ s \notin served'

StillDrained(b) == finished'[b] /\ empty(queue'[b])

C20_LateAttach ==
  /\ [][\A s \in Sessions :
          (Attached(s) /\ Drained(sbuild'[s])) => (StillFresh(s) /\ StillDrained(sbuild'[s]))]_vars
  /\ [][\A s \in Sessions :
          (Fresh(s) /\ Drained(sbuild[s])) =>
            \/ StillFresh(s) /\ StillDrained(sbuild[s]) /\ ~(Yielded /\ out'.sess = s)
            \/ /\ spc'[s] = "done"
               /\ Yielded /\ out'.sess = s /\ out'.chunk = DoneChunk
               /\ queue' = queue /\ getters' = getters /\ served' = served]_vars
  /\ [][\A s \in Sessions :
          spc[s] = "done" => (spc'[s] = "done" /\ ~(Yielded /\ out'.sess = s))]_vars

C20_Witness ==
  /\ spc[1] = "done" /\ 1 \in served
  /\ spc[2] = "done" /\ 2 \notin served
  /\ sbuild[1] = sbuild[2]
  /\ out.sess = 2 /\ out.chunk = DoneChunk

====
